---- MODULE Spec2Model ----
(***************************************************************************)
(* Circuit breaker of src/src/utils/cache.ts (class CircuitBreaker), its    *)
(* registry (class CircuitBreakerRegistry) and retry of                    *)
(* src/src/utils/retry.ts, and InterceptorManager of src/src/http/base.ts.  *)
(* Each has its own specification: Spec and FairSpec for one breaker,      *)
(* RegistrySpec, RetrySpec, InterceptorSpec, ExecuteRetrySpec (execute     *)
(* with a retry as fn) and StageSpec (the built-in request interceptors);  *)
(* the variables of the others keep their initial values.                  *)
(*                                                                         *)
(* Time.  The code reads the clock with Date.now() and new Date() and      *)
(* compares stored instants only with "now" (ts > now - failureWindow).    *)
(* Every stored instant is therefore kept as its age, now - ts: an instant *)
(* taken from the clock has age 0, the action Tick lets one unit of time   *)
(* pass and adds one to every age.  An age that has reached failureWindow  *)
(* is outside the window for ever, so ages saturate there.  A host timer   *)
(* is kept with the time that remains until it is due.  lastFailure and    *)
(* lastSuccess are written and handed out by getStats but never read by    *)
(* the breaker: they hold null or a Date.                                  *)
(***************************************************************************)
EXTENDS Integers, Sequences, FiniteSets, TLC

\* ---- bounds of the model -------------------------------------------------
\* cap of totalCalls (guard of ExecuteCall)
MaxCalls == 4
\* cap of the other counters of the breaker (guards of ExecuteSettle)
MaxCount == 2
\* number of execute calls that may be suspended at "await fn()" at once
MaxInFlight == 2

\* ---- options ---------------------------------------------------------------
\* The unit of time is 30000 ms: the default resetTimeout (30000) is one
\* unit and the default failureWindow (60000) is two.
ResetTimeout == 1
FailureWindow == 2
\* failureThreshold of the withCircuitBreaker test; the default successThreshold
FailureThreshold == 2
SuccessThreshold == 2

\* ---- values --------------------------------------------------------------
\* null of a nullable field; a value v of such a field is <<v>>
Null == << >>

CLOSED == "CLOSED"
OPEN == "OPEN"
HALF_OPEN == "HALF_OPEN"
CircuitState == {CLOSED, OPEN, HALF_OPEN}

\* errors fn may throw ('critical' and 'minor' of the isFailure test)
Errors == {"critical", "minor"}
\* the error thrown by the default fallback
CircuitBreakerError == "CircuitBreakerError"
\* the value fn resolves with, and the value of a custom fallback
FnValue == "normal"
FallbackValue == "fallback-value"

Resolve(v) == <<"resolve", v>>
Reject(e) == <<"reject", e>>
FnResults == {Resolve(FnValue)} \cup {Reject(e) : e \in Errors}

\* states in which execute passes the call on to fn
AdmitStates == {CLOSED, HALF_OPEN}

VARIABLES
    state, failures, successes, lastFailure, lastSuccess,
    totalCalls, totalFailures, totalSuccesses, resetTimer, failureTimestamps,
    options,    \* the options the breaker was constructed with
    timers,     \* the host's pending setTimeout callbacks
    inflight,   \* execute calls suspended at "await fn()", by state at admission
    emitted,    \* events emitted by the latest operation, in order
    lastOp      \* the latest operation and what it returned to its caller

\* the registry
VARIABLES
    breakers,   \* CircuitBreakerRegistry.breakers: name -> instance
    created,    \* number of CircuitBreaker instances the registry has made
    lastReg     \* the latest operation on the registry and what it returned

\* one call of retry
VARIABLES
    opts,       \* the options of the call, defaults filled in
    loopI,      \* i of the for loop
    lastError,  \* null or the latest error caught
    waitTime,   \* null or the delay of the pending setTimeout
    pc,         \* "start", "fn" (await fn()), "wait" (await setTimeout), "done"
    result,     \* null or what retry settled with
    trace       \* what retry has called and seen so far, in order

\* the interceptor manager
VARIABLES
    interceptors,   \* the three arrays of InterceptorManager, by kind
    handles,        \* the de-registration functions handed out so far
    registrations,  \* number of calls of useRequest, useResponse, useError
    run,            \* null or the latest run of the interceptors of a kind
    lastInt         \* the latest operation on the manager

\* the objects the built-in request stages work on
VARIABLES
    heap,       \* the objects made so far: configs and headers objects
    lastStage   \* the latest call of a stage: its argument and what it returned

breakerVars == <<state, failures, successes, lastFailure, lastSuccess,
                 totalCalls, totalFailures, totalSuccesses, resetTimer,
                 failureTimestamps, options, timers, inflight, emitted, lastOp>>

registryVars == <<breakers, created, lastReg>>

retryVars == <<opts, loopI, lastError, waitTime, pc, result, trace>>

interceptorVars == <<interceptors, handles, registrations, run, lastInt>>

stageVars == <<heap, lastStage>>

vars == <<breakerVars, registryVars, retryVars, interceptorVars, stageVars>>

\* ---- the breaker object as a record --------------------------------------
Breaker ==
    [state |-> state, failures |-> failures, successes |-> successes,
     lastFailure |-> lastFailure, lastSuccess |-> lastSuccess,
     totalCalls |-> totalCalls, totalFailures |-> totalFailures,
     totalSuccesses |-> totalSuccesses, resetTimer |-> resetTimer,
     failureTimestamps |-> failureTimestamps, options |-> options,
     timers |-> timers, emitted |-> << >>]

\* the breaker b is the next state of the object
Becomes(b) ==
    /\ state' = b.state
    /\ failures' = b.failures
    /\ successes' = b.successes
    /\ lastFailure' = b.lastFailure
    /\ lastSuccess' = b.lastSuccess
    /\ totalCalls' = b.totalCalls
    /\ totalFailures' = b.totalFailures
    /\ totalSuccesses' = b.totalSuccesses
    /\ resetTimer' = b.resetTimer
    /\ failureTimestamps' = b.failureTimestamps
    /\ options' = b.options
    /\ timers' = b.timers
    /\ emitted' = b.emitted

Emit(b, event) == [b EXCEPT !.emitted = Append(@, event)]

\* Date.now(), as an age
Now == 0

\* new Date()
NewDate == "Date"

\* ---- host timers ---------------------------------------------------------
TimerIds(ts) == {t.id : t \in ts}

\* setTimeout returns a handle no pending timer has
FreshTimerId(ts) ==
    CHOOSE i \in 1..(Cardinality(ts) + 1) :
        /\ i \notin TimerIds(ts)
        /\ \A j \in 1..(i - 1) : j \in TimerIds(ts)

SetTimeout(ts, id, delay) == ts \cup {[id |-> id, remaining |-> delay]}

ClearTimeout(ts, id) == {t \in ts : t.id # id}

\* ---- private methods -----------------------------------------------------
\* clearResetTimer that forgets the handle and leaves the host's timer pending
ClearResetTimerHandleOnly(b) == [b EXCEPT !.resetTimer = Null]

ClearResetTimer(b) ==
    IF b.resetTimer # Null
    THEN [b EXCEPT !.timers = ClearTimeout(@, b.resetTimer[1]),
                   !.resetTimer = Null]
    ELSE b

ScheduleReset(b) ==
    LET c == ClearResetTimer(b)
        id == FreshTimerId(c.timers)
    IN [c EXCEPT !.timers = SetTimeout(@, id, ResetTimeout),
                 !.resetTimer = <<id>>]

\* cleanupFailureTimestamps that keeps the timestamps at the cutoff and
\* older
CleanupKeepsCutoff(b) ==
    LET InWindow(age) == age <= FailureWindow
    IN [b EXCEPT !.failureTimestamps = SelectSeq(@, InWindow)]

CleanupFailureTimestamps(b) ==
    LET InWindow(age) == age < FailureWindow
    IN [b EXCEPT !.failureTimestamps = SelectSeq(@, InWindow)]

\* open() that schedules no reset
OpenNoSchedule(b) ==
    IF b.state = OPEN THEN b
    ELSE LET previousState == b.state
             b1 == [b EXCEPT !.state = OPEN]
             b2 == Emit(b1, <<"stateChange", OPEN, previousState>>)
         IN Emit(b2, <<"open">>)

Open(b) ==
    IF b.state = OPEN THEN b
    ELSE LET previousState == b.state
             b1 == [b EXCEPT !.state = OPEN]
             b2 == Emit(b1, <<"stateChange", OPEN, previousState>>)
             b3 == Emit(b2, <<"open">>)
         IN ScheduleReset(b3)

\* close() that leaves the reset timer pending
CloseKeepTimer(b) ==
    IF b.state = CLOSED THEN b
    ELSE LET previousState == b.state
             b1 == [b EXCEPT !.state = CLOSED, !.failures = 0,
                             !.successes = 0, !.failureTimestamps = << >>]
             b2 == Emit(b1, <<"stateChange", CLOSED, previousState>>)
         IN Emit(b2, <<"close">>)

Close(b) ==
    IF b.state = CLOSED THEN b
    ELSE LET previousState == b.state
             b1 == [b EXCEPT !.state = CLOSED, !.failures = 0,
                             !.successes = 0, !.failureTimestamps = << >>]
             b2 == ClearResetTimer(b1)
             b3 == Emit(b2, <<"stateChange", CLOSED, previousState>>)
         IN Emit(b3, <<"close">>)

\* halfOpen() that emits the stateChange event alone
HalfOpenOneEvent(b) ==
    IF b.state = HALF_OPEN THEN b
    ELSE LET previousState == b.state
             b1 == [b EXCEPT !.state = HALF_OPEN, !.successes = 0]
         IN Emit(b1, <<"stateChange", HALF_OPEN, previousState>>)

HalfOpen(b) ==
    IF b.state = HALF_OPEN THEN b
    ELSE LET previousState == b.state
             b1 == [b EXCEPT !.state = HALF_OPEN, !.successes = 0]
             b2 == Emit(b1, <<"stateChange", HALF_OPEN, previousState>>)
         IN Emit(b2, <<"halfOpen">>)

\* onSuccess that closes only above the threshold
OnSuccessAboveThreshold(b) ==
    LET b1 == [b EXCEPT !.successes = @ + 1, !.totalSuccesses = @ + 1,
                        !.lastSuccess = <<NewDate>>]
        b2 == Emit(b1, <<"success">>)
    IN IF b2.state = HALF_OPEN
       THEN IF b2.successes > SuccessThreshold THEN Close(b2) ELSE b2
       ELSE IF b2.state = CLOSED
            THEN [b2 EXCEPT !.failures = 0, !.failureTimestamps = << >>]
            ELSE b2

\* onSuccess that leaves failures and the failure window alone in CLOSED
OnSuccessKeepWindow(b) ==
    LET b1 == [b EXCEPT !.successes = @ + 1, !.totalSuccesses = @ + 1,
                        !.lastSuccess = <<NewDate>>]
        b2 == Emit(b1, <<"success">>)
    IN IF b2.state = HALF_OPEN
       THEN IF b2.successes >= SuccessThreshold THEN Close(b2) ELSE b2
       ELSE b2

\* onSuccess that applies the success threshold in OPEN as in HALF_OPEN
OnSuccessClosesOpen(b) ==
    LET b1 == [b EXCEPT !.successes = @ + 1, !.totalSuccesses = @ + 1,
                        !.lastSuccess = <<NewDate>>]
        b2 == Emit(b1, <<"success">>)
    IN IF b2.state # CLOSED
       THEN IF b2.successes >= SuccessThreshold THEN Close(b2) ELSE b2
       ELSE [b2 EXCEPT !.failures = 0, !.failureTimestamps = << >>]

OnSuccess(b) ==
    LET b1 == [b EXCEPT !.successes = @ + 1, !.totalSuccesses = @ + 1,
                        !.lastSuccess = <<NewDate>>]
        b2 == Emit(b1, <<"success">>)
    IN IF b2.state = HALF_OPEN
       THEN IF b2.successes >= SuccessThreshold THEN Close(b2) ELSE b2
       ELSE IF b2.state = CLOSED
            THEN [b2 EXCEPT !.failures = 0, !.failureTimestamps = << >>]
            ELSE b2

\* onFailure that opens only above the threshold
OnFailureAboveThreshold(b, error) ==
    LET b1 == [b EXCEPT !.failures = @ + 1, !.totalFailures = @ + 1,
                        !.lastFailure = <<NewDate>>,
                        !.failureTimestamps = Append(@, Now)]
        b2 == Emit(b1, <<"failure", error>>)
        b3 == CleanupFailureTimestamps(b2)
    IN IF b3.state = HALF_OPEN
       THEN Open(b3)
       ELSE IF b3.state = CLOSED
            THEN IF Len(b3.failureTimestamps) > FailureThreshold
                 THEN Open(b3) ELSE b3
            ELSE b3

\* onFailure that applies the threshold in HALF_OPEN too
OnFailureThresholdInHalfOpen(b, error) ==
    LET b1 == [b EXCEPT !.failures = @ + 1, !.totalFailures = @ + 1,
                        !.lastFailure = <<NewDate>>,
                        !.failureTimestamps = Append(@, Now)]
        b2 == Emit(b1, <<"failure", error>>)
        b3 == CleanupFailureTimestamps(b2)
    IN IF b3.state \in {HALF_OPEN, CLOSED}
       THEN IF Len(b3.failureTimestamps) >= FailureThreshold
            THEN Open(b3) ELSE b3
       ELSE b3

\* onFailure that closes the breaker it finds HALF_OPEN
OnFailureClosesHalfOpen(b, error) ==
    LET b1 == [b EXCEPT !.failures = @ + 1, !.totalFailures = @ + 1,
                        !.lastFailure = <<NewDate>>,
                        !.failureTimestamps = Append(@, Now)]
        b2 == Emit(b1, <<"failure", error>>)
        b3 == CleanupFailureTimestamps(b2)
    IN IF b3.state = HALF_OPEN
       THEN Close(b3)
       ELSE IF b3.state = CLOSED
            THEN IF Len(b3.failureTimestamps) >= FailureThreshold
                 THEN Open(b3) ELSE b3
            ELSE b3

OnFailure(b, error) ==
    LET b1 == [b EXCEPT !.failures = @ + 1, !.totalFailures = @ + 1,
                        !.lastFailure = <<NewDate>>,
                        !.failureTimestamps = Append(@, Now)]
        b2 == Emit(b1, <<"failure", error>>)
        b3 == CleanupFailureTimestamps(b2)
    IN IF b3.state = HALF_OPEN
       THEN Open(b3)
       ELSE IF b3.state = CLOSED
            THEN IF Len(b3.failureTimestamps) >= FailureThreshold
                 THEN Open(b3) ELSE b3
            ELSE b3

\* ---- isFailure and fallback ------------------------------------------------
\* the defaults of the constructor, and the custom isFailure and fallback of
\* the tests
DefaultOptions == [isFailure |-> "default", fallback |-> "default"]
TestOptions == [isFailure |-> "custom", fallback |-> "custom"]

\* options.isFailure: the default counts every error, the custom predicate
\* of the tests counts only 'critical'
IsFailure(b, error) ==
    IF b.options.isFailure = "default" THEN TRUE ELSE error = "critical"

\* options.fallback: what the call of it does
Fallback(b) ==
    IF b.options.fallback = "default"
    THEN Reject(CircuitBreakerError)
    ELSE Resolve(FallbackValue)

\* ---- public methods ------------------------------------------------------
GetState(b) == b.state

GetStats(b) ==
    [state |-> b.state, failures |-> b.failures, successes |-> b.successes,
     lastFailure |-> b.lastFailure, lastSuccess |-> b.lastSuccess,
     totalCalls |-> b.totalCalls, totalFailures |-> b.totalFailures,
     totalSuccesses |-> b.totalSuccesses]

IsCallable(b) == b.state # OPEN

\* forceOpen() that starts the cooldown again on an OPEN breaker
ForceOpenExtends(b) == IF b.state = OPEN THEN ScheduleReset(b) ELSE Open(b)

ForceOpenOf(b) == Open(b)

\* forceClose() that leaves the reset timer pending
ForceCloseKeepTimer(b) == CloseKeepTimer(b)

ForceCloseOf(b) == Close(b)

\* reset() that only closes
ResetOnlyClose(b) == Close(b)

ResetOf(b) ==
    [Close(b) EXCEPT !.totalCalls = 0, !.totalFailures = 0,
                     !.totalSuccesses = 0, !.lastFailure = Null,
                     !.lastSuccess = Null]

\* execute that short-circuits in HALF_OPEN instead of OPEN
ExecuteBeginWrongState(b) ==
    LET b1 == [b EXCEPT !.totalCalls = @ + 1]
    IN IF b1.state = HALF_OPEN
       THEN [breaker |-> Emit(b1, <<"fallback">>), invoked |-> FALSE,
             outcome |-> Fallback(b1)]
       ELSE [breaker |-> b1, invoked |-> TRUE, outcome |-> Null]

\* execute that counts the calls it admits only
ExecuteBeginCountAdmitted(b) ==
    IF b.state = OPEN
    THEN [breaker |-> Emit(b, <<"fallback">>), invoked |-> FALSE,
          outcome |-> Fallback(b)]
    ELSE [breaker |-> [b EXCEPT !.totalCalls = @ + 1], invoked |-> TRUE,
          outcome |-> Null]

\* execute that starts the cooldown again when it finds the breaker OPEN
ExecuteBeginReschedules(b) ==
    LET b1 == [b EXCEPT !.totalCalls = @ + 1]
    IN IF b1.state = OPEN
       THEN [breaker |-> ScheduleReset(Emit(b1, <<"fallback">>)),
             invoked |-> FALSE, outcome |-> Fallback(b1)]
       ELSE [breaker |-> b1, invoked |-> TRUE, outcome |-> Null]

\* execute, from the call to "await fn()" or, when OPEN, to the return:
\* the breaker after it, whether fn was invoked, and what the caller gets
ExecuteBegin(b) ==
    LET b1 == [b EXCEPT !.totalCalls = @ + 1]
    IN IF b1.state = OPEN
       THEN [breaker |-> Emit(b1, <<"fallback">>), invoked |-> FALSE,
             outcome |-> Fallback(b1)]
       ELSE [breaker |-> b1, invoked |-> TRUE, outcome |-> Null]

\* execute that records every error of fn, whatever isFailure says
ExecuteResumeCountAll(b, fnResult) ==
    IF fnResult[1] = "resolve"
    THEN [breaker |-> OnSuccess(b), outcome |-> Resolve(fnResult[2])]
    ELSE LET error == fnResult[2]
         IN [breaker |-> OnFailure(b, error), outcome |-> Reject(error)]

\* execute that adds every error of fn to totalFailures before isFailure
ExecuteResumeCountTotal(b, fnResult) ==
    IF fnResult[1] = "resolve"
    THEN [breaker |-> OnSuccess(b), outcome |-> Resolve(fnResult[2])]
    ELSE LET error == fnResult[2]
             b1 == [b EXCEPT !.totalFailures = @ + 1]
         IN [breaker |-> IF IsFailure(b, error)
                         THEN [OnFailure(b, error) EXCEPT
                                   !.totalFailures = b1.totalFailures]
                         ELSE b1,
             outcome |-> Reject(error)]

\* execute that hands out the fallback when the breaker is OPEN at the
\* settlement of fn()
ExecuteResumeFallbackWhenOpen(b, fnResult) ==
    LET r == IF fnResult[1] = "resolve"
             THEN [breaker |-> OnSuccess(b), outcome |-> Resolve(fnResult[2])]
             ELSE LET error == fnResult[2]
                  IN [breaker |-> IF IsFailure(b, error)
                                  THEN OnFailure(b, error) ELSE b,
                      outcome |-> Reject(error)]
    IN IF r.breaker.state = OPEN
       THEN [r EXCEPT !.outcome = Fallback(b)]
       ELSE r

\* execute, from the settlement of fn() to the return: the breaker after it
\* and what the caller gets
ExecuteResume(b, fnResult) ==
    IF fnResult[1] = "resolve"
    THEN [breaker |-> OnSuccess(b), outcome |-> Resolve(fnResult[2])]
    ELSE LET error == fnResult[2]
         IN [breaker |-> IF IsFailure(b, error) THEN OnFailure(b, error) ELSE b,
             outcome |-> Reject(error)]

\* ---- CircuitBreakerRegistry ------------------------------------------------
\* names of the registry tests
Names == {"service1", "service2"}
\* cap of the number of instances the registry makes (guard of RegistryGet)
MaxInstances == 2
\* cap of the counters of a registered breaker (guard of InstanceExecute)
MaxInstanceCalls == 1

\* new CircuitBreaker(options): the breaker after construction
NewCircuitBreaker(o) ==
    [state |-> CLOSED, failures |-> 0, successes |-> 0,
     lastFailure |-> Null, lastSuccess |-> Null,
     totalCalls |-> 0, totalFailures |-> 0, totalSuccesses |-> 0,
     resetTimer |-> Null, failureTimestamps |-> << >>, options |-> o,
     timers |-> {}, emitted |-> << >>]

\* An instance is the breaker with the identity of the object (the number
\* of its creation) and the name given to its constructor.  The events of
\* an operation have gone to the listeners when it returns: an instance
\* holds none.  The Map is a function from the registered names.
Quiet(b) == [b EXCEPT !.emitted = << >>]

Instance(id, name, b) == [id |-> id, name |-> name, breaker |-> Quiet(b)]

EmptyMap == [n \in {} |-> Null]

MapSet(m, key, value) ==
    [n \in DOMAIN m \cup {key} |-> IF n = key THEN value ELSE m[n]]

MapDelete(m, key) == [n \in DOMAIN m \ {key} |-> m[n]]

\* what a registry operation gives: the map after it, what it returns, the
\* instance it made and the instance it took out of the map
Done(m, ret, made, removed) ==
    [map |-> m, ret |-> ret, made |-> made, removed |-> removed]

\* get that makes a breaker on every call
RegistryGetAlwaysCreates(m, name, o, id) ==
    LET breaker == Instance(id, name, NewCircuitBreaker(o))
    IN Done(MapSet(m, name, breaker), breaker, TRUE, Null)

\* get(name, options), id being the identity of the object "new" would make
RegistryGetOf(m, name, o, id) ==
    IF name \in DOMAIN m
    THEN Done(m, m[name], FALSE, Null)
    ELSE LET breaker == Instance(id, name, NewCircuitBreaker(o))
         IN Done(MapSet(m, name, breaker), breaker, TRUE, Null)

RegistryHasOf(m, name) == Done(m, name \in DOMAIN m, FALSE, Null)

\* remove that deletes without reset()
RegistryRemoveNoReset(m, name) ==
    IF name \in DOMAIN m
    THEN Done(MapDelete(m, name), TRUE, FALSE, <<m[name]>>)
    ELSE Done(m, FALSE, FALSE, Null)

\* remove(name): removed is the instance as reset() has left it
RegistryRemoveOf(m, name) ==
    IF name \in DOMAIN m
    THEN LET breaker == [m[name] EXCEPT !.breaker = Quiet(ResetOf(@))]
         IN Done(MapDelete(m, name), TRUE, FALSE, <<breaker>>)
    ELSE Done(m, FALSE, FALSE, Null)

RegistryGetAllStatsOf(m) ==
    Done(m, [n \in DOMAIN m |-> GetStats(m[n].breaker)], FALSE, Null)

RegistryResetAllOf(m) ==
    Done([n \in DOMAIN m |-> [m[n] EXCEPT !.breaker = Quiet(ResetOf(@))]],
         Null, FALSE, Null)

RegistrySizeOf(m) == Done(m, Cardinality(DOMAIN m), FALSE, Null)

\* the latest operation on the registry: its name, its arguments and what
\* it gave
Reg(op, name, o, r) ==
    [op |-> op, name |-> name, options |-> o, ret |-> r.ret,
     made |-> r.made, removed |-> r.removed]

\* the registry after construction, and as the other specifications leave it
RegistryIdle ==
    /\ breakers = EmptyMap
    /\ created = 0
    /\ lastReg = Reg("new", Null, Null, Done(EmptyMap, Null, FALSE, Null))

\* one registry operation has run and given r
RegistryBecomes(op, name, o, r) ==
    /\ breakers' = r.map
    /\ created' = IF r.made THEN created + 1 ELSE created
    /\ lastReg' = Reg(op, name, o, r)
    /\ UNCHANGED <<breakerVars, retryVars, interceptorVars, stageVars>>

RegistryGet(name, o) ==
    LET r == RegistryGetOf(breakers, name, o, created + 1)
    IN /\ r.made => created < MaxInstances
       /\ RegistryBecomes("get", name, o, r)

RegistryHas(name) ==
    LET r == RegistryHasOf(breakers, name)
    IN RegistryBecomes("has", name, Null, r)

RegistryRemove(name) ==
    LET r == RegistryRemoveOf(breakers, name)
    IN RegistryBecomes("remove", name, Null, r)

RegistryGetAllStats ==
    LET r == RegistryGetAllStatsOf(breakers)
    IN RegistryBecomes("getAllStats", Null, Null, r)

RegistryResetAll ==
    LET r == RegistryResetAllOf(breakers)
    IN RegistryBecomes("resetAll", Null, Null, r)

RegistrySize ==
    LET r == RegistrySizeOf(breakers)
    IN RegistryBecomes("size", Null, Null, r)

\* The holder of a registered breaker uses it.  Time does not pass in the
\* specification of the registry, and fn() settles before anything else
\* runs: how one breaker behaves in time and under concurrent calls is
\* Spec.
InstanceExecute(name, fnResult) ==
    /\ name \in DOMAIN breakers
    /\ breakers[name].breaker.totalCalls < MaxInstanceCalls
    /\ breakers[name].breaker.successes < MaxInstanceCalls
    /\ breakers[name].breaker.failures < MaxInstanceCalls
    /\ LET b == breakers[name].breaker
           r == ExecuteBegin(b)
           after == Quiet(IF r.invoked
                          THEN ExecuteResume(r.breaker, fnResult).breaker
                          ELSE r.breaker)
       IN RegistryBecomes("execute", Null, Null,
              Done([breakers EXCEPT ![name].breaker = after], Null, FALSE,
                   Null))

InstanceForceOpen(name) ==
    /\ name \in DOMAIN breakers
    /\ LET b == breakers[name].breaker
       IN RegistryBecomes("forceOpen", Null, Null,
              Done([breakers EXCEPT ![name].breaker = Quiet(ForceOpenOf(b))],
                   Null, FALSE, Null))

RegistryNext ==
    \/ \E n \in Names, o \in {DefaultOptions, TestOptions} : RegistryGet(n, o)
    \/ \E n \in Names : RegistryHas(n)
    \/ \E n \in Names : RegistryRemove(n)
    \/ RegistryGetAllStats
    \/ RegistryResetAll
    \/ RegistrySize
    \/ \E n \in Names, r \in {Resolve(FnValue), Reject("critical")} :
           InstanceExecute(n, r)
    \/ \E n \in Names : InstanceForceOpen(n)

\* ---- retry (src/src/utils/retry.ts) ------------------------------------------
\* largest retries a call is made with
MaxRetries == 5
\* the defaults of retry and of retryWithBackoff
DefaultRetries == 5
DefaultDelay == 5000
DefaultMaxDelay == 60000
DefaultInitialDelay == 1000

\* What fn() may settle with: the value and the two Error instances of the
\* tests, and a value that is not an Error (a string).  A thrown value is
\* <<kind, content>>; an Error's content is its message.
RetryValue == "success"
ErrorOf(message) == <<"Error", message>>
Thrown == {ErrorOf("fail 1"), ErrorOf("fail 2"), <<"string", "boom">>}
FnOutcomes == {Resolve(RetryValue)} \cup {Reject(v) : v \in Thrown}

\* err instanceof Error ? err : new Error(String(err))
ToError(err) == IF err[1] = "Error" THEN err ELSE ErrorOf(err[2])

RetriesExhausted == ErrorOf("Retries exhausted with unknown error")

\* a ?? b on a nullable a
OrElse(a, b) == IF a # Null THEN a[1] ELSE b

\* the options of retry(fn, options, delay): the argument options (arg) is
\* a number or an object with fields that are null when left out
NumberOptions(n) == [number |-> n]
ObjectOptions(retries, delay, exponential, maxDelay) ==
    [retries |-> retries, delay |-> delay, exponential |-> exponential,
     maxDelay |-> maxDelay]
IsNumber(arg) == "number" \in DOMAIN arg

RequiredOptions(arg, delay) ==
    [retries |-> IF IsNumber(arg) THEN arg.number
                 ELSE OrElse(arg.retries, DefaultRetries),
     delay |-> IF IsNumber(arg) THEN OrElse(delay, DefaultDelay)
               ELSE OrElse(arg.delay, DefaultDelay),
     exponential |-> IF IsNumber(arg) THEN FALSE
                     ELSE OrElse(arg.exponential, FALSE),
     maxDelay |-> IF IsNumber(arg) THEN DefaultMaxDelay
                  ELSE OrElse(arg.maxDelay, DefaultMaxDelay)]

\* retryWithBackoff(fn, retries, initialDelay) calls retry with these
RetryWithBackoffOptions(retries, initialDelay) ==
    ObjectOptions(<<OrElse(retries, DefaultRetries)>>,
                  <<OrElse(initialDelay, DefaultInitialDelay)>>,
                  <<TRUE>>, Null)

\* the calls of retry: [options, delay]
Retries == 0..MaxRetries
Delays == {10, 1000}
RetryCalls ==
    {<<NumberOptions(n), d>> : n \in Retries, d \in {Null, <<10>>}}
    \cup {<<ObjectOptions(n, d, e, m), Null>> :
              n \in {Null} \cup {<<k>> : k \in Retries},
              d \in {Null} \cup {<<k>> : k \in Delays},
              e \in {Null, <<TRUE>>, <<FALSE>>},
              m \in {Null, <<8000>>}}
    \cup {<<RetryWithBackoffOptions(n, d), Null>> :
              n \in {Null} \cup {<<k>> : k \in Retries},
              d \in {Null, <<50>>}}

\* ---- the call of retry as a record ---------------------------------------
Retry ==
    [opts |-> opts, loopI |-> loopI, lastError |-> lastError,
     waitTime |-> waitTime, pc |-> pc, result |-> result, trace |-> trace]

\* the call s is the next state of the call of retry
RetryIs(s) ==
    /\ opts' = s.opts
    /\ loopI' = s.loopI
    /\ lastError' = s.lastError
    /\ waitTime' = s.waitTime
    /\ pc' = s.pc
    /\ result' = s.result
    /\ trace' = s.trace

RetryBecomes(s) ==
    /\ RetryIs(s)
    /\ UNCHANGED <<breakerVars, registryVars, interceptorVars, stageVars>>

Saw(s, event) == [s EXCEPT !.trace = Append(@, event)]

Min(a, b) == IF a < b THEN a ELSE b

\* the wait that doubles once too often
WaitTimeDoubledEarly(o, i) ==
    IF o.exponential THEN Min(o.delay * 2 ^ (i + 1), o.maxDelay) ELSE o.delay

\* the wait without the cap
WaitTimeUncapped(o, i) ==
    IF o.exponential THEN o.delay * 2 ^ i ELSE o.delay

\* waitTime of the iteration i
WaitTime(o, i) ==
    IF o.exponential THEN Min(o.delay * 2 ^ i, o.maxDelay) ELSE o.delay

\* the loop that makes one attempt more
LoopOneMore(s) ==
    IF s.loopI <= s.opts.retries
    THEN Saw([s EXCEPT !.pc = "fn"], <<"fn", s.loopI + 1>>)
    ELSE [s EXCEPT !.pc = "done",
                   !.result = Reject(OrElse(s.lastError, RetriesExhausted))]

\* the test of the for loop with what follows it: fn() is called and
\* awaited, or the loop is left and retry throws
Loop(s) ==
    IF s.loopI < s.opts.retries
    THEN Saw([s EXCEPT !.pc = "fn"], <<"fn", s.loopI + 1>>)
    ELSE [s EXCEPT !.pc = "done",
                   !.result = Reject(OrElse(s.lastError, RetriesExhausted))]

\* the catch clause that keeps the first error
CatchKeepFirst(s, err) ==
    LET s1 == [Saw(s, <<"threw", s.loopI + 1, err>>) EXCEPT
                   !.lastError = <<OrElse(s.lastError, ToError(err))>>]
    IN IF s1.loopI < s1.opts.retries - 1
       THEN LET s2 == Saw(s1, <<"onRetry", s1.lastError[1], s1.loopI + 1>>)
                w == WaitTime(s2.opts, s2.loopI)
            IN Saw([s2 EXCEPT !.pc = "wait", !.waitTime = <<w>>],
                   <<"wait", w>>)
       ELSE Loop([s1 EXCEPT !.loopI = @ + 1])

\* the catch clause that calls onRetry for the last attempt too
CatchOnRetryAlways(s, err) ==
    LET s1 == [Saw(s, <<"threw", s.loopI + 1, err>>) EXCEPT
                   !.lastError = <<ToError(err)>>]
        s2 == Saw(s1, <<"onRetry", s1.lastError[1], s1.loopI + 1>>)
    IN IF s1.loopI < s1.opts.retries - 1
       THEN LET w == WaitTime(s2.opts, s2.loopI)
            IN Saw([s2 EXCEPT !.pc = "wait", !.waitTime = <<w>>],
                   <<"wait", w>>)
       ELSE Loop([s2 EXCEPT !.loopI = @ + 1])

\* the catch clause that captures Error instances only
CatchErrorsOnly(s, err) ==
    LET s1 == [Saw(s, <<"threw", s.loopI + 1, err>>) EXCEPT
                   !.lastError = IF err[1] = "Error" THEN <<err>> ELSE @]
    IN IF s1.loopI < s1.opts.retries - 1
       THEN LET s2 == Saw(s1, <<"onRetry", ToError(err), s1.loopI + 1>>)
                w == WaitTime(s2.opts, s2.loopI)
            IN Saw([s2 EXCEPT !.pc = "wait", !.waitTime = <<w>>],
                   <<"wait", w>>)
       ELSE Loop([s1 EXCEPT !.loopI = @ + 1])

\* the catch clause that gives up at the first error
CatchNoRetry(s, err) ==
    LET s1 == [Saw(s, <<"threw", s.loopI + 1, err>>) EXCEPT
                   !.lastError = <<ToError(err)>>]
    IN Loop([s1 EXCEPT !.loopI = s1.opts.retries])

\* the catch clause, to the next suspension or to the end of retry; onRetry
\* is an observer, as in the tests: it returns
Catch(s, err) ==
    LET s1 == [Saw(s, <<"threw", s.loopI + 1, err>>) EXCEPT
                   !.lastError = <<ToError(err)>>]
    IN IF s1.loopI < s1.opts.retries - 1
       THEN LET s2 == Saw(s1, <<"onRetry", s1.lastError[1], s1.loopI + 1>>)
                w == WaitTime(s2.opts, s2.loopI)
            IN Saw([s2 EXCEPT !.pc = "wait", !.waitTime = <<w>>],
                   <<"wait", w>>)
       ELSE Loop([s1 EXCEPT !.loopI = @ + 1])

\* return await fn()
Return(s, value) ==
    [Saw(s, <<"returned", s.loopI + 1, value>>) EXCEPT
         !.pc = "done", !.result = Resolve(value)]

\* no call of retry, as the other specifications leave it
RetryIdle ==
    /\ opts = RequiredOptions(NumberOptions(DefaultRetries), Null)
    /\ loopI = 0
    /\ lastError = Null
    /\ waitTime = Null
    /\ pc = "start"
    /\ result = Null
    /\ trace = << >>

\* retry(fn, options, delay) to its first suspension
RetryCall ==
    /\ pc = "start"
    /\ RetryBecomes(Loop(Retry))

\* fn() settles and retry runs on to its next suspension or to its end
FnSettles(outcome) ==
    /\ pc = "fn"
    /\ RetryBecomes(IF outcome[1] = "resolve"
                    THEN Return(Retry, outcome[2])
                    ELSE Catch(Retry, outcome[2]))

\* the timer of the wait runs: the loop goes on with i++
WaitElapses ==
    /\ pc = "wait"
    /\ RetryBecomes(Loop([Retry EXCEPT !.waitTime = Null, !.loopI = @ + 1]))

RetryNext ==
    \/ RetryCall
    \/ \E outcome \in FnOutcomes : FnSettles(outcome)
    \/ WaitElapses

\* ---- InterceptorManager (src/src/http/base.ts) -----------------------------
\* the three arrays of the manager
Kinds == {"request", "response", "error"}
\* the interceptor functions of the chain test; a stage appends its mark to
\* what it is given (the message of the error, the config, the response)
Stages == {"[1]", "[2]"}
Base == <<"Base">>
Apply(fn, value) == Append(value, fn)
\* cap of the number of registrations (guard of Use)
MaxRegistrations == 2

\* An entry of an array is the function with the number of the registration
\* that pushed it: indexOf compares the functions only.
Entry(fn, reg) == [fn |-> fn, reg |-> reg]

NoInterceptors == [k \in Kinds |-> << >>]

\* Array.indexOf, counting from 1: 0 is "not found" (-1)
IndexOf(list, fn) ==
    IF \E p \in DOMAIN list : list[p].fn = fn
    THEN CHOOSE p \in DOMAIN list :
             /\ list[p].fn = fn
             /\ \A q \in 1..(p - 1) : list[q].fn # fn
    ELSE 0

\* Array.splice(index, 1)
Splice(list, index) ==
    [p \in 1..(Len(list) - 1) |-> IF p < index THEN list[p] ELSE list[p + 1]]

\* useRequest, useResponse, useError: the arrays after the push
UseOf(m, kind, fn, reg) == [m EXCEPT ![kind] = Append(@, Entry(fn, reg))]

\* the function useRequest, useResponse or useError returns: it closes over
\* the manager and the interceptor; reg is the registration that made it
Handle(kind, fn, reg) == [kind |-> kind, fn |-> fn, reg |-> reg]

\* a call of the handle h
RemoveOf(m, h) ==
    LET index == IndexOf(m[h.kind], h.fn)
    IN IF index # 0
       THEN [m EXCEPT ![h.kind] = Splice(@, index)]
       ELSE m

ClearOf(m) == NoInterceptors

CountsOf(m) == [k \in Kinds |-> Len(m[k])]

\* A run of runRequestInterceptors, runResponseInterceptors or
\* runErrorInterceptors, suspended at "await interceptor(current)".  The for
\* loop iterates the array the field held when the loop began: splice
\* changes that array in place, clear() puts a new array in the field and
\* leaves the run with the old one (detached).  index is the number of
\* entries the iterator has handed out.
RunArray(r, m) == IF r.detached = Null THEN m[r.kind] ELSE r.detached[1]

\* the iterator's next() and the body of the loop up to its await, or the
\* return of the run
NextStage(r, m) ==
    LET array == RunArray(r, m)
    IN IF r.index < Len(array)
       THEN LET e == array[r.index + 1]
            IN [r EXCEPT !.index = @ + 1,
                         !.awaiting = <<e>>,
                         !.invoked = Append(@, [fn |-> e.fn, reg |-> e.reg,
                                                given |-> r.current])]
       ELSE [r EXCEPT !.awaiting = Null, !.returned = <<r.current>>]

\* the run that begins with the second entry
RunAfterFirst(kind, value, m) ==
    NextStage([kind |-> kind, detached |-> Null, index |-> 1,
               current |-> value, awaiting |-> Null, invoked |-> << >>,
               returned |-> Null, start |-> m[kind], disturbed |-> FALSE], m)

\* the call of a run function, to its first await or to its return; start
\* is the array at the call and disturbed tells whether a registration, a
\* handle or clear() has run since
RunOf(kind, value, m) ==
    NextStage([kind |-> kind, detached |-> Null, index |-> 0,
               current |-> value, awaiting |-> Null, invoked |-> << >>,
               returned |-> Null, start |-> m[kind], disturbed |-> FALSE], m)

\* the awaited stage settles with its output and the loop goes on
ResumeOf(r, m) ==
    NextStage([r EXCEPT !.current = Apply(r.awaiting[1].fn, r.current)], m)

\* the run r, when the manager's arrays m are about to be replaced by clear()
DetachOf(r, m) ==
    IF r.detached = Null THEN [r EXCEPT !.detached = <<m[r.kind]>>] ELSE r

\* the latest operation on the manager: its name, its argument and what it
\* returned
IntOp(op, arg, ret) == [op |-> op, arg |-> arg, ret |-> ret]

\* the manager after construction, and as the other specifications leave it
InterceptorIdle ==
    /\ interceptors = NoInterceptors
    /\ handles = {}
    /\ registrations = 0
    /\ run = Null
    /\ lastInt = IntOp("new", Null, Null)

Running == run # Null /\ run[1].returned = Null

\* the run, when an operation on the arrays has run during it
Disturbed(rn) ==
    IF rn # Null /\ rn[1].returned = Null
    THEN <<[rn[1] EXCEPT !.disturbed = TRUE]>>
    ELSE rn

\* useRequest(fn), useResponse(fn), useError(fn)
Use(kind, fn) ==
    /\ registrations < MaxRegistrations
    /\ interceptors' = UseOf(interceptors, kind, fn, registrations + 1)
    /\ handles' = handles \cup {Handle(kind, fn, registrations + 1)}
    /\ registrations' = registrations + 1
    /\ run' = Disturbed(run)
    /\ lastInt' = IntOp("use", Entry(fn, registrations + 1),
                      Handle(kind, fn, registrations + 1))
    /\ UNCHANGED <<breakerVars, registryVars, retryVars, stageVars>>

\* a call of a handle that a registration has returned
Remove(h) ==
    /\ h \in handles
    /\ interceptors' = RemoveOf(interceptors, h)
    /\ run' = Disturbed(run)
    /\ lastInt' = IntOp("remove", h, Null)
    /\ UNCHANGED <<handles, registrations>>
    /\ UNCHANGED <<breakerVars, registryVars, retryVars, stageVars>>

Clear ==
    /\ interceptors' = ClearOf(interceptors)
    /\ run' = IF Running
              THEN Disturbed(<<DetachOf(run[1], interceptors)>>)
              ELSE run
    /\ lastInt' = IntOp("clear", Null, Null)
    /\ UNCHANGED <<handles, registrations>>
    /\ UNCHANGED <<breakerVars, registryVars, retryVars, stageVars>>

Counts ==
    /\ lastInt' = IntOp("counts", Null, CountsOf(interceptors))
    /\ UNCHANGED <<interceptors, handles, registrations, run>>
    /\ UNCHANGED <<breakerVars, registryVars, retryVars, stageVars>>

\* runRequestInterceptors(value), runResponseInterceptors(value),
\* runErrorInterceptors(value), one run at a time, to the first await
Run(kind) ==
    /\ ~Running
    /\ run' = <<RunOf(kind, Base, interceptors)>>
    /\ lastInt' = IntOp("run", kind, Null)
    /\ UNCHANGED <<interceptors, handles, registrations>>
    /\ UNCHANGED <<breakerVars, registryVars, retryVars, stageVars>>

\* the stage the run awaits settles: the run goes on to its next await or
\* returns
StageSettles ==
    /\ Running
    /\ run' = <<ResumeOf(run[1], interceptors)>>
    /\ lastInt' = IntOp("settle", Null, Null)
    /\ UNCHANGED <<interceptors, handles, registrations>>
    /\ UNCHANGED <<breakerVars, registryVars, retryVars, stageVars>>

InterceptorNext ==
    \/ \E k \in Kinds, fn \in Stages : Use(k, fn)
    \/ \E h \in handles : Remove(h)
    \/ Clear
    \/ Counts
    \/ \E k \in Kinds : Run(k)
    \/ StageSettles

\* ---- built-in request interceptors (src/src/http/base.ts) ------------------
\* An object is a config, with its data and a reference to its headers
\* object (null when the property is undefined), or a headers object, with
\* a value or null (undefined) for every header name.  A reference is the
\* index of the object in heap.  A value of a header is a sequence of
\* strings.
HeaderNames ==
    {"Authorization", "X-Request-ID", "X-Request-Time", "Content-Type",
     "User-Agent"}
\* cap of the number of objects (guard of Stage)
MaxObjects == 3

Config(data, headers) == [data |-> data, headers |-> headers]
NoHeaders == [n \in HeaderNames |-> Null]

\* JavaScript truthiness of a value that is undefined, null or a string
Truthy(v) == v # Null /\ v[1] # ""

\* the data of a request: undefined, the empty string and a body
Datas == {Null, <<"">>, <<"body">>}
\* what getToken() yields
Tokens == {Null, <<"">>, <<"tok">>}
\* generateRequestId() and Date.now().toString(), at two instants
RequestIds == {<<"id", "1">>, <<"id", "2">>}
Times == {<<"1000">>, <<"2000">>}
ContentTypes == {<<"application/json">>, <<"application/xml">>}
AgentName == <<"agent">>

\* config.headers = { ...config.headers, [name]: value }: a new headers
\* object with the properties of the old one and the header, assigned to
\* the headers property of the config c; the stage returns c
SetHeader(h, c, name, value) ==
    LET old == IF h[c].headers = Null THEN NoHeaders
               ELSE h[h[c].headers[1]]
        made == [old EXCEPT ![name] = <<value>>]
        id == Len(h) + 1
    IN [heap |-> Append([h EXCEPT ![c].headers = <<id>>], made), ret |-> c]

\* `Bearer ${token}`
Bearer(token) == <<"Bearer", token>>

\* config.headers?.['Content-Type']
HeaderOf(h, c, name) ==
    IF h[c].headers = Null THEN Null ELSE h[h[c].headers[1]][name]

CreateAuthInterceptor(h, c, token) ==
    IF Truthy(token)
    THEN SetHeader(h, c, "Authorization", Bearer(token[1]))
    ELSE [heap |-> h, ret |-> c]

CreateRequestIdInterceptor(h, c, requestId) ==
    SetHeader(h, c, "X-Request-ID", requestId)

CreateTimestampInterceptor(h, c, now) ==
    SetHeader(h, c, "X-Request-Time", now)

CreateContentTypeInterceptor(h, c, contentType) ==
    IF Truthy(h[c].data) /\ HeaderOf(h, c, "Content-Type") = Null
    THEN SetHeader(h, c, "Content-Type", contentType)
    ELSE [heap |-> h, ret |-> c]

CreateUserAgentInterceptor(h, c, userAgent) ==
    SetHeader(h, c, "User-Agent", userAgent)

\* the config c as its holder reads it: its data and its headers
Deep(h, c) ==
    [data |-> h[c].data,
     headers |-> IF h[c].headers = Null THEN Null
                 ELSE <<h[h[c].headers[1]]>>]

\* the latest call of a stage: the stage, its parameter, the config it was
\* given (the reference arg, read as given at the call) and the reference
\* it returned
StageOp(op, param, arg, given, ret) ==
    [op |-> op, param |-> param, arg |-> arg, given |-> given, ret |-> ret]

\* one config without data and headers, as the other specifications leave
\* it
StageIdle ==
    /\ heap = <<Config(Null, Null)>>
    /\ lastStage = StageOp("new", Null, 1, Deep(heap, 1), 1)

\* the config the caller makes, with or without a headers object
StageInit ==
    /\ heap \in {<<Config(data, Null)>> : data \in Datas}
             \cup {<<Config(data, <<2>>), headers>> :
                       data \in Datas,
                       headers \in {NoHeaders,
                                    [NoHeaders EXCEPT !["Content-Type"] =
                                         << <<"text/plain">> >>]}}
    /\ lastStage = StageOp("new", Null, 1, Deep(heap, 1), 1)

\* a stage is called with the config the latest stage returned
Stage(op, param, r) ==
    /\ Len(heap) < MaxObjects
    /\ heap' = r.heap
    /\ lastStage' = StageOp(op, param, lastStage.ret,
                            Deep(heap, lastStage.ret), r.ret)
    /\ UNCHANGED <<breakerVars, registryVars, retryVars, interceptorVars>>

Auth(token) ==
    Stage("auth", token, CreateAuthInterceptor(heap, lastStage.ret, token))

RequestId(id) ==
    Stage("requestId", id,
          CreateRequestIdInterceptor(heap, lastStage.ret, id))

Timestamp(now) ==
    Stage("timestamp", now,
          CreateTimestampInterceptor(heap, lastStage.ret, now))

ContentType(contentType) ==
    Stage("contentType", contentType,
          CreateContentTypeInterceptor(heap, lastStage.ret, contentType))

UserAgent ==
    Stage("userAgent", AgentName,
          CreateUserAgentInterceptor(heap, lastStage.ret, AgentName))

StageNext ==
    \/ \E token \in Tokens : Auth(token)
    \/ \E id \in RequestIds : RequestId(id)
    \/ \E now \in Times : Timestamp(now)
    \/ \E contentType \in ContentTypes : ContentType(contentType)
    \/ UserAgent

\* ---- the state machine ---------------------------------------------------
Op(name, invoked, fnResult, outcome) ==
    [op |-> name, invoked |-> invoked, fnResult |-> fnResult,
     outcome |-> outcome]

Admin(name) == Op(name, FALSE, Null, Null)

InFlight == inflight[CLOSED] + inflight[HALF_OPEN]

Init ==
    /\ state = CLOSED
    /\ failures = 0
    /\ successes = 0
    /\ lastFailure = Null
    /\ lastSuccess = Null
    /\ totalCalls = 0
    /\ totalFailures = 0
    /\ totalSuccesses = 0
    /\ resetTimer = Null
    /\ failureTimestamps = << >>
    /\ options \in {DefaultOptions, TestOptions}
    /\ timers = {}
    /\ inflight = [s \in AdmitStates |-> 0]
    /\ emitted = << >>
    /\ lastOp = Admin("new")
    /\ RegistryIdle
    /\ RetryIdle
    /\ InterceptorIdle
    /\ StageIdle

\* execute(fn) up to its first suspension, or to its return when OPEN
ExecuteCall ==
    /\ totalCalls < MaxCalls
    /\ LET r == ExecuteBegin(Breaker)
       IN /\ r.invoked => InFlight < MaxInFlight
          /\ Becomes(r.breaker)
          /\ inflight' = IF r.invoked /\ state \in AdmitStates
                         THEN [inflight EXCEPT ![state] = @ + 1]
                         ELSE inflight
          /\ lastOp' = Op("execute", r.invoked, Null, r.outcome)
    /\ UNCHANGED <<registryVars, retryVars, interceptorVars, stageVars>>

\* fn() of a suspended execute settles with fnResult and execute returns
ExecuteSettle(admitted, fnResult) ==
    /\ inflight[admitted] > 0
    /\ fnResult[1] = "resolve" =>
           successes < MaxCount /\ totalSuccesses < MaxCount
    /\ fnResult[1] = "reject" =>
           failures < MaxCount /\ totalFailures < MaxCount
    /\ LET r == ExecuteResume(Breaker, fnResult)
       IN /\ Becomes(r.breaker)
          /\ lastOp' = Op("settle", TRUE, fnResult, r.outcome)
    /\ inflight' = [inflight EXCEPT ![admitted] = @ - 1]
    /\ UNCHANGED <<registryVars, retryVars, interceptorVars, stageVars>>

\* the host runs the callback of a timer that is due
TimerFire(t) ==
    /\ t \in timers
    /\ t.remaining = 0
    /\ Becomes(HalfOpen([Breaker EXCEPT !.timers = @ \ {t}]))
    /\ inflight' = inflight
    /\ lastOp' = Admin("timer")
    /\ UNCHANGED <<registryVars, retryVars, interceptorVars, stageVars>>

ForceOpen ==
    /\ Becomes(ForceOpenOf(Breaker))
    /\ inflight' = inflight
    /\ lastOp' = Admin("forceOpen")
    /\ UNCHANGED <<registryVars, retryVars, interceptorVars, stageVars>>

ForceClose ==
    /\ Becomes(ForceCloseOf(Breaker))
    /\ inflight' = inflight
    /\ lastOp' = Admin("forceClose")
    /\ UNCHANGED <<registryVars, retryVars, interceptorVars, stageVars>>

Reset ==
    /\ Becomes(ResetOf(Breaker))
    /\ inflight' = inflight
    /\ lastOp' = Admin("reset")
    /\ UNCHANGED <<registryVars, retryVars, interceptorVars, stageVars>>

\* one unit of time passes
Older(age) == IF age < FailureWindow THEN age + 1 ELSE age

Tick ==
    /\ failureTimestamps' =
           [i \in 1..Len(failureTimestamps) |-> Older(failureTimestamps[i])]
    /\ timers' = {[id |-> t.id,
                   remaining |-> IF t.remaining > 0 THEN t.remaining - 1 ELSE 0]
                  : t \in timers}
    /\ UNCHANGED <<state, failures, successes, lastFailure, lastSuccess,
                   totalCalls, totalFailures, totalSuccesses, resetTimer,
                   options, inflight, emitted, lastOp>>
    /\ UNCHANGED <<registryVars, retryVars, interceptorVars, stageVars>>

Next ==
    \/ ExecuteCall
    \/ \E a \in AdmitStates, r \in FnResults : ExecuteSettle(a, r)
    \/ \E t \in timers : TimerFire(t)
    \/ ForceOpen
    \/ ForceClose
    \/ Reset
    \/ Tick

Spec == Init /\ [][Next]_vars

\* the host's clock advances and due timer callbacks are run
FairSpec ==
    /\ Spec
    /\ WF_vars(Tick)
    /\ WF_vars(\E t \in timers : TimerFire(t))

\* ---- the registry and retry, each on its own ------------------------------
\* the breaker as the specifications of the registry and of retry leave it
BreakerIdle ==
    /\ state = CLOSED
    /\ failures = 0
    /\ successes = 0
    /\ lastFailure = Null
    /\ lastSuccess = Null
    /\ totalCalls = 0
    /\ totalFailures = 0
    /\ totalSuccesses = 0
    /\ resetTimer = Null
    /\ failureTimestamps = << >>
    /\ options = DefaultOptions
    /\ timers = {}
    /\ inflight = [s \in AdmitStates |-> 0]
    /\ emitted = << >>
    /\ lastOp = Admin("new")

RegistryInit ==
    BreakerIdle /\ RegistryIdle /\ RetryIdle /\ InterceptorIdle /\ StageIdle

RegistrySpec == RegistryInit /\ [][RegistryNext]_vars

RetryInit ==
    /\ BreakerIdle
    /\ RegistryIdle
    /\ InterceptorIdle
    /\ StageIdle
    /\ opts \in {RequiredOptions(c[1], c[2]) : c \in RetryCalls}
    /\ loopI = 0
    /\ lastError = Null
    /\ waitTime = Null
    /\ pc = "start"
    /\ result = Null
    /\ trace = << >>

RetrySpec == RetryInit /\ [][RetryNext]_vars

InterceptorInit ==
    BreakerIdle /\ RegistryIdle /\ RetryIdle /\ InterceptorIdle /\ StageIdle

InterceptorSpec == InterceptorInit /\ [][InterceptorNext]_vars

StageSpecInit ==
    BreakerIdle /\ RegistryIdle /\ RetryIdle /\ InterceptorIdle /\ StageInit

StageSpec == StageSpecInit /\ [][StageNext]_vars

\* ---- execute(() => retry(transport, R)) -----------------------------------
\* One caller makes execute calls one after the other on a breaker with the
\* default options; fn is a call of retry with R >= 1 attempts of a
\* transport that always throws TransportError.  trace goes on from call to
\* call: it holds the invocations of the transport of all the calls.
TransportError == ErrorOf("fail 1")

\* a new call of retry, with the options and the trace of s
Fresh(s) ==
    [s EXCEPT !.loopI = 0, !.lastError = Null, !.waitTime = Null,
              !.result = Null, !.pc = "start"]

\* execute(fn) to the return when OPEN, and else to the first await of
\* retry inside fn()
ExecuteRetryCall ==
    /\ pc = "start"
    /\ totalCalls < MaxCalls
    /\ LET r == ExecuteBegin(Breaker)
       IN /\ r.invoked => totalFailures < MaxCount /\ failures < MaxCount
          /\ Becomes(r.breaker)
          /\ inflight' = IF r.invoked
                         THEN [inflight EXCEPT ![state] = @ + 1]
                         ELSE inflight
          /\ lastOp' = Op("execute", r.invoked, Null, r.outcome)
          /\ RetryIs(IF r.invoked THEN Loop(Fresh(Retry)) ELSE Retry)
    /\ UNCHANGED <<registryVars, interceptorVars, stageVars>>

\* the transport throws and retry runs on to its next await or to its end
TransportFails ==
    /\ pc = "fn"
    /\ RetryIs(Catch(Retry, TransportError))
    /\ UNCHANGED <<breakerVars, registryVars, interceptorVars, stageVars>>

\* the timer of the wait of retry runs
RetryWaitElapses ==
    /\ pc = "wait"
    /\ RetryIs(Loop([Retry EXCEPT !.waitTime = Null, !.loopI = @ + 1]))
    /\ UNCHANGED <<breakerVars, registryVars, interceptorVars, stageVars>>

\* retry has thrown: fn() of execute rejects and execute returns
ExecuteRetrySettle(admitted) ==
    /\ pc = "done"
    /\ inflight[admitted] > 0
    /\ LET thrown == ExecuteResume(Breaker, result)
       IN /\ Becomes(thrown.breaker)
          /\ lastOp' = Op("settle", TRUE, result, thrown.outcome)
    /\ inflight' = [inflight EXCEPT ![admitted] = @ - 1]
    /\ RetryIs(Fresh(Retry))
    /\ UNCHANGED <<registryVars, interceptorVars, stageVars>>

ExecuteRetryInit ==
    /\ BreakerIdle
    /\ RegistryIdle
    /\ InterceptorIdle
    /\ StageIdle
    /\ opts \in {RequiredOptions(NumberOptions(n), d) :
                     n \in 1..MaxRetries, d \in {Null, <<10>>}}
    /\ loopI = 0
    /\ lastError = Null
    /\ waitTime = Null
    /\ pc = "start"
    /\ result = Null
    /\ trace = << >>

ExecuteRetryNext ==
    \/ ExecuteRetryCall
    \/ TransportFails
    \/ RetryWaitElapses
    \/ \E a \in AdmitStates : ExecuteRetrySettle(a)
    \/ \E t \in timers : TimerFire(t)
    \/ Tick

ExecuteRetrySpec == ExecuteRetryInit /\ [][ExecuteRetryNext]_vars

\* ---- vocabulary of the properties ----------------------------------------
\* the step is an execute call (nothing else adds one to totalCalls)
CallStep == totalCalls' = totalCalls + 1

\* the step is the settlement of fn() of a suspended execute (nothing else
\* takes a call out of inflight); lastOp' holds what fn() settled with
SettleStep == InFlight' = InFlight - 1

SuccessStep == SettleStep /\ lastOp'.fnResult[1] = "resolve"

FailureStep(error) == SettleStep /\ lastOp'.fnResult = <<"reject", error>>

\* the error counts as a failure under the options of the breaker
Counted(error) == options.isFailure = "default" \/ error = "critical"

\* number of recorded failures that are inside the failure window now
RecentFailures ==
    Cardinality({i \in DOMAIN failureTimestamps :
                    failureTimestamps[i] < FailureWindow})

FourEdges ==
    {<<CLOSED, OPEN>>, <<OPEN, HALF_OPEN>>, <<HALF_OPEN, CLOSED>>,
     <<HALF_OPEN, OPEN>>}

\* C1: while CLOSED, the counted failure that makes failureThreshold
\* consecutive counted failures inside failureWindow (the failure window
\* holds the counted failures since the last success) opens the breaker,
\* and an execute call made while it is OPEN does not invoke fn.
C1_ThresholdFailuresOpen ==
    [][ /\ \A e \in Errors :
             ( /\ FailureStep(e)
               /\ Counted(e)
               /\ state = CLOSED
               /\ RecentFailures >= FailureThreshold - 1 )
             => state' = OPEN
        /\ (CallStep /\ state = OPEN)
             => (inflight' = inflight /\ ~lastOp'.invoked) ]_vars

\* the scenario of the tests: failureThreshold failures, then one more call
C1_Witness ==
    /\ state = OPEN
    /\ lastOp.op = "execute"
    /\ ~lastOp.invoked
    /\ totalCalls = FailureThreshold + 1
    /\ totalFailures = FailureThreshold
    /\ Len(failureTimestamps) = FailureThreshold
    /\ InFlight = 0

\* C2: an execute call that starts while OPEN does not invoke fn, emits the
\* fallback event (and nothing else) and hands its caller what fallback()
\* gives: the value of a custom fallback, or a rejection with
\* CircuitBreakerError by default.
C2_OpenShortCircuits ==
    [][ (CallStep /\ state = OPEN)
        => /\ inflight' = inflight
           /\ ~lastOp'.invoked
           /\ emitted' = << <<"fallback">> >>
           /\ lastOp'.outcome =
                  IF options.fallback = "custom"
                  THEN <<"resolve", "fallback-value">>
                  ELSE <<"reject", "CircuitBreakerError">> ]_vars

C2_Witness ==
    /\ state = OPEN
    /\ lastOp.op = "execute"
    /\ emitted = << <<"fallback">> >>
    /\ options.fallback = "custom"
    /\ lastOp.outcome = <<"resolve", "fallback-value">>
    /\ totalFailures = FailureThreshold

\* C3 as claimed: every change of state is one of the four edges.
C3_OnlyFourEdges ==
    [][ state' # state => <<state, state'>> \in FourEdges ]_vars

\* C3 as amended: every change of state is one of the four edges, or
\* OPEN -> CLOSED made by forceClose() or reset(); CLOSED -> HALF_OPEN is
\* not reachable.
C3_EdgesWithOverride ==
    [][ state' # state
        => \/ <<state, state'>> \in FourEdges
           \/ /\ <<state, state'>> = <<OPEN, CLOSED>>
              /\ ForceClose \/ Reset ]_vars

\* forceClose() has closed an OPEN breaker
C3_Witness ==
    /\ state = CLOSED
    /\ lastOp.op = "forceClose"
    /\ emitted = << <<"stateChange", CLOSED, OPEN>>, <<"close">> >>

\* the step is the run of a reset timer's callback
TimerStep == lastOp'.op = "timer" /\ Cardinality(timers') < Cardinality(timers)

\* C4: an OPEN breaker does not stay OPEN for ever: unless forceClose() or
\* reset() closes it, the reset timer's callback makes it HALF_OPEN, and
\* that step is no execute call.
C4_OpenLeadsToHalfOpen ==
    /\ (state = OPEN)
           ~> \/ state = HALF_OPEN
              \/ state = CLOSED /\ lastOp.op \in {"forceClose", "reset"}
    /\ [][ (TimerStep /\ state = OPEN)
            => (state' = HALF_OPEN /\ totalCalls' = totalCalls) ]_vars

\* opened by failureThreshold failures, half-open with no further call
C4_Witness ==
    /\ state = HALF_OPEN
    /\ lastOp.op = "timer"
    /\ totalCalls = FailureThreshold
    /\ totalFailures = FailureThreshold
    /\ InFlight = 0

\* C5: in HALF_OPEN the successes count starts at 0 and grows by one with
\* each successful completion; the completion that makes it reach
\* successThreshold, and no earlier completion, closes the breaker, leaving
\* failures = 0, successes = 0, an empty failure window and no timer.
\* (forceClose() and reset() are the overrides of C3, not completions.)
C5_HalfOpenClosesAtThreshold ==
    [][ /\ (state # HALF_OPEN /\ state' = HALF_OPEN) => successes' = 0
        /\ state' = HALF_OPEN => successes' < SuccessThreshold
        /\ (SuccessStep /\ state = HALF_OPEN)
             => IF successes + 1 >= SuccessThreshold
                THEN /\ state' = CLOSED
                     /\ failures' = 0
                     /\ successes' = 0
                     /\ failureTimestamps' = << >>
                     /\ timers' = {}
                     /\ resetTimer' = Null
                ELSE /\ state' = HALF_OPEN
                     /\ successes' = successes + 1
        /\ (SettleStep /\ ~SuccessStep /\ state = HALF_OPEN)
             => /\ state' # CLOSED
                /\ state' = HALF_OPEN => successes' = successes ]_vars

\* successThreshold successes in HALF_OPEN have closed the breaker
C5_Witness ==
    /\ state = CLOSED
    /\ lastOp.op = "settle"
    /\ emitted = << <<"success">>, <<"stateChange", CLOSED, HALF_OPEN>>,
                    <<"close">> >>
    /\ totalSuccesses = SuccessThreshold

\* C6: in HALF_OPEN one counted failure opens the breaker, whatever the
\* successes count and the failure window hold, and a reset timer is
\* scheduled resetTimeout ahead.
C6_HalfOpenFailureReopens ==
    [][ \A e \in Errors :
            (FailureStep(e) /\ Counted(e) /\ state = HALF_OPEN)
            => /\ state' = OPEN
               /\ resetTimer' # Null
               /\ timers' = {[id |-> resetTimer'[1],
                              remaining |-> ResetTimeout]} ]_vars

\* reopened by the first failure, after one success, the window below the
\* threshold
C6_Witness ==
    /\ state = OPEN
    /\ lastOp.op = "settle"
    /\ emitted = << <<"failure", "critical">>,
                    <<"stateChange", OPEN, HALF_OPEN>>, <<"open">> >>
    /\ successes = 1
    /\ Len(failureTimestamps) < FailureThreshold

\* C7: an error of fn for which isFailure is false leaves state, failures,
\* the failure window and successes unchanged, in CLOSED and in HALF_OPEN
\* alike, and execute rejects with that error.
C7_IgnoredFailureChangesNothing ==
    [][ \A e \in Errors :
            (FailureStep(e) /\ ~Counted(e))
            => /\ UNCHANGED <<state, failures, failureTimestamps, successes>>
               /\ lastOp'.outcome = <<"reject", e>> ]_vars

\* an ignored failure in HALF_OPEN, after one counted success
C7_Witness ==
    /\ state = HALF_OPEN
    /\ lastOp.op = "settle"
    /\ lastOp.fnResult = <<"reject", "minor">>
    /\ lastOp.outcome = <<"reject", "minor">>
    /\ options.isFailure = "custom"
    /\ successes = 1

\* C8 as claimed: every error thrown by fn adds one to totalFailures.
C8_EveryErrorCountsInTotal ==
    [][ \A e \in Errors :
            FailureStep(e) => totalFailures' = totalFailures + 1 ]_vars

\* C8 as amended: an error of fn adds one to totalFailures when isFailure
\* is true of it; when isFailure is false totalFailures is left unchanged,
\* like failures, the failure window and the state.
C8_CountedErrorsCountInTotal ==
    [][ \A e \in Errors :
            FailureStep(e)
            => IF Counted(e)
               THEN totalFailures' = totalFailures + 1
               ELSE UNCHANGED <<totalFailures, failures, failureTimestamps,
                                state>> ]_vars

\* the only call failed with an ignored error: totalFailures is still 0
C8_Witness ==
    /\ lastOp.op = "settle"
    /\ lastOp.fnResult = <<"reject", "minor">>
    /\ options.isFailure = "custom"
    /\ totalCalls = 1
    /\ InFlight = 0
    /\ totalFailures = 0

\* C9: an execute call that was admitted hands its caller what fn() settled
\* with, the same error or the same value, whatever the state of the
\* breaker is at that time.
C9_OutcomeIsFnResult ==
    lastOp.op = "settle"
    => /\ lastOp.fnResult \in FnResults
       /\ lastOp.outcome = lastOp.fnResult

\* a call admitted earlier resolves while the breaker is OPEN
C9_Witness ==
    /\ state = OPEN
    /\ lastOp.op = "settle"
    /\ lastOp.outcome = <<"resolve", "normal">>
    /\ emitted = << <<"success">> >>

\* C10: after reset(), from any state, state = CLOSED, the three lifetime
\* counters are 0, lastFailure and lastSuccess are null and no reset timer
\* is pending.
C10_ResetClearsAll ==
    lastOp.op = "reset"
    => /\ state = CLOSED
       /\ totalCalls = 0
       /\ totalFailures = 0
       /\ totalSuccesses = 0
       /\ lastFailure = Null
       /\ lastSuccess = Null
       /\ timers = {}
       /\ resetTimer = Null

\* reset() of an OPEN breaker
C10_Witness ==
    /\ lastOp.op = "reset"
    /\ emitted = << <<"stateChange", CLOSED, OPEN>>, <<"close">> >>
    /\ InFlight > 0

\* C11: at most one reset timer is pending, and it is the one whose handle
\* the breaker holds; an OPEN breaker has exactly one (open() cancels what
\* was pending before it schedules the new one); a CLOSED breaker, and a
\* breaker after reset(), has none.
C11_AtMostOneResetTimer ==
    /\ Cardinality(timers) <= 1
    /\ timers # {} => (resetTimer # Null /\ TimerIds(timers) = {resetTimer[1]})
    /\ state = OPEN => Cardinality(timers) = 1
    /\ state = CLOSED => timers = {}
    /\ lastOp.op = "reset" => timers = {}

\* opened by forceOpen(), made HALF_OPEN by the timer, reopened by a failure
\* while the handle of the timer that ran was still held: one timer is
\* pending, resetTimeout ahead
C11_Witness ==
    /\ state = OPEN
    /\ emitted = << <<"failure", "critical">>,
                    <<"stateChange", OPEN, HALF_OPEN>>, <<"open">> >>
    /\ timers = {[id |-> resetTimer[1], remaining |-> ResetTimeout]}
    /\ totalCalls = 1
    /\ totalFailures = 1

\* C12: a pending reset timer implies state = OPEN, so the callback of a
\* reset timer only ever runs on an OPEN breaker, which it makes HALF_OPEN:
\* never on a CLOSED one, after forceClose(), reset() or a close followed
\* by a reopen.
C12_TimerOnlyWhileOpen ==
    /\ timers # {} => state = OPEN
    /\ lastOp.op = "timer"
       => /\ state = HALF_OPEN
          /\ emitted = << <<"stateChange", HALF_OPEN, OPEN>>, <<"halfOpen">> >>

\* opened, closed by forceClose(), reopened by forceOpen(): the timer that
\* ran is the one of the reopening
C12_Witness ==
    /\ lastOp.op = "timer"
    /\ state = HALF_OPEN
    /\ totalCalls = 0
    /\ resetTimer # Null
    /\ timers = {}

\* C13: a successful completion that finds the breaker CLOSED leaves
\* failures = 0 and the failure window empty, and a counted failure opens a
\* CLOSED breaker only with failureThreshold failures in the window: after
\* failureThreshold-1 counted failures, a success and failureThreshold-1
\* more counted failures the breaker is CLOSED.
C13_SuccessClearsWindow ==
    /\ ( /\ lastOp.op = "settle"
         /\ lastOp.fnResult[1] = "resolve"
         /\ state = CLOSED
         /\ emitted = << <<"success">> >> )
       => (failures = 0 /\ failureTimestamps = << >>)
    /\ ( /\ lastOp.op = "settle"
         /\ state = OPEN
         /\ <<"stateChange", OPEN, CLOSED>> \in {emitted[i] : i \in DOMAIN emitted} )
       => Len(failureTimestamps) >= FailureThreshold
    /\ state = CLOSED => Len(failureTimestamps) < FailureThreshold

\* failureThreshold-1 failures, one success, failureThreshold-1 failures, no
\* time passing: still CLOSED
C13_Witness ==
    /\ state = CLOSED
    /\ lastOp.op = "settle"
    /\ lastOp.fnResult = <<"reject", "critical">>
    /\ totalCalls = 2 * (FailureThreshold - 1) + 1
    /\ totalFailures = 2 * (FailureThreshold - 1)
    /\ totalSuccesses = 1
    /\ failures = FailureThreshold - 1
    /\ failureTimestamps = [i \in 1..(FailureThreshold - 1) |-> Now]
    /\ InFlight = 0

\* the identities of the registered instances
RegisteredIds == {breakers[n].id : n \in DOMAIN breakers}

\* the latest registry operation is op on the name n
RegDone(op, n) == lastReg.op = op /\ lastReg.name = n

\* the step is the registry operation op on the name n
RegStep(op, n) == lastReg'.op = op /\ lastReg'.name = n

\* C14: get(name) makes a breaker when the name is not registered and
\* otherwise returns the registered instance and changes nothing, whatever
\* options it is given; only get and remove change which instance a name
\* has; each name has one instance of its own, has(name) changes nothing
\* and tells whether the name is registered, and size is the number of
\* registered names.
C14_GetOrCreate ==
    /\ [](/\ \A n \in DOMAIN breakers : breakers[n].name = n
          /\ \A n1, n2 \in DOMAIN breakers :
                 breakers[n1].id = breakers[n2].id => n1 = n2
          /\ Cardinality(RegisteredIds) = Cardinality(DOMAIN breakers)
          /\ lastReg.op = "size" => lastReg.ret = Cardinality(DOMAIN breakers)
          /\ lastReg.op = "get"
             => /\ lastReg.name \in DOMAIN breakers
                /\ lastReg.ret = breakers[lastReg.name])
    /\ [][ /\ \A n \in Names :
                /\ (RegStep("get", n) /\ n \in DOMAIN breakers)
                   => /\ breakers' = breakers
                      /\ created' = created
                      /\ lastReg'.ret = breakers[n]
                /\ (RegStep("get", n) /\ n \notin DOMAIN breakers)
                   => /\ breakers' =
                             MapSet(breakers, n,
                                    [id |-> created + 1, name |-> n,
                                     breaker |->
                                         NewCircuitBreaker(lastReg'.options)])
                      /\ created' = created + 1
                /\ RegStep("has", n)
                   => /\ breakers' = breakers
                      /\ created' = created
                      /\ lastReg'.ret = (n \in DOMAIN breakers)
           /\ lastReg'.op \notin {"get", "remove"}
              => /\ DOMAIN breakers' = DOMAIN breakers
                 /\ \A n \in DOMAIN breakers : breakers'[n].id = breakers[n].id
         ]_vars

\* both names registered; get of a registered name with other options than
\* those its breaker was made with has returned that breaker
C14_Witness ==
    /\ lastReg.op = "get"
    /\ ~lastReg.made
    /\ lastReg.options = TestOptions
    /\ lastReg.ret.breaker.options = DefaultOptions
    /\ lastReg.ret.breaker.totalCalls = 1
    /\ Cardinality(DOMAIN breakers) = 2

\* C15: remove(name) of a registered name returns true, takes the name out
\* of the map and leaves its breaker as reset() does (CLOSED, the lifetime
\* counters 0, lastFailure and lastSuccess null, no timer pending);
\* has(name) is then false and get(name) makes a new instance, CLOSED with
\* zero stats, that is not the removed one.  remove(name) of a name that is
\* not registered returns false and changes nothing.
C15_RemoveResetsAndDeletes ==
    /\ [](lastReg.op = "remove"
          => /\ lastReg.name \notin DOMAIN breakers
             /\ lastReg.ret = (lastReg.removed # Null)
             /\ lastReg.removed # Null
                => LET b == lastReg.removed[1].breaker
                   IN /\ b.state = CLOSED
                      /\ b.totalCalls = 0
                      /\ b.totalFailures = 0
                      /\ b.totalSuccesses = 0
                      /\ b.lastFailure = Null
                      /\ b.lastSuccess = Null
                      /\ b.timers = {}
                      /\ b.resetTimer = Null
                      /\ lastReg.removed[1].id \notin RegisteredIds)
    /\ [][ \A n \in Names :
             /\ RegStep("remove", n)
                => /\ lastReg'.ret = (n \in DOMAIN breakers)
                   /\ breakers' = MapDelete(breakers, n)
                   /\ n \in DOMAIN breakers
                      => lastReg'.removed[1].id = breakers[n].id
             /\ (RegDone("remove", n) /\ RegStep("has", n))
                => lastReg'.ret = FALSE
             /\ (RegDone("remove", n) /\ lastReg.ret /\ RegStep("get", n))
                => /\ lastReg'.made
                   /\ lastReg'.ret.id # lastReg.removed[1].id
                   /\ lastReg'.ret.id \notin RegisteredIds
                   /\ lastReg'.ret.breaker.state = CLOSED
                   /\ GetStats(lastReg'.ret.breaker) =
                          GetStats(NewCircuitBreaker(lastReg'.options))
         ]_vars

\* the second instance, used once and removed, after the first was removed
\* or while it was never used: the map is empty
C15_Witness ==
    /\ lastReg.op = "remove"
    /\ lastReg.ret = TRUE
    /\ lastReg.removed # Null
    /\ lastReg.removed[1].id = 2
    /\ lastReg.removed[1].breaker.successes = 1
    /\ lastReg.removed[1].breaker.totalCalls = 0
    /\ breakers = EmptyMap

\* ---- vocabulary of the properties of retry --------------------------------
\* the events of one kind that retry has seen, in order
Events(kind) ==
    LET OfKind(e) == e[1] = kind
    IN SelectSeq(trace, OfKind)

\* the number of invocations of fn
Calls == Len(Events("fn"))

\* the delays retry has waited, or is waiting, in order
Waits == [k \in 1..Len(Events("wait")) |-> Events("wait")[k][2]]

\* S is a prefix of T
IsPrefix(S, T) == Len(S) <= Len(T) /\ \A k \in 1..Len(S) : S[k] = T[k]

\* C16: with retries = N >= 1, fn is invoked attempt after attempt, never
\* more than N times; when retry has settled, either attempt k <= N
\* returned, after k-1 attempts that threw, fn was invoked k times and
\* retry resolved with the value of attempt k, or N attempts threw, fn was
\* invoked N times and retry rejected.
C16_InvocationsAndResult ==
    opts.retries >= 1
    => /\ Calls <= opts.retries
       /\ \A k \in 1..Calls : Events("fn")[k] = <<"fn", k>>
       /\ pc = "done"
          => IF Events("returned") # << >>
             THEN LET k == Events("returned")[1][2]
                  IN /\ Len(Events("returned")) = 1
                     /\ k <= opts.retries
                     /\ Calls = k
                     /\ Len(Events("threw")) = k - 1
                     /\ result = <<"resolve", Events("returned")[1][3]>>
             ELSE /\ Calls = opts.retries
                  /\ Len(Events("threw")) = opts.retries
                  /\ result[1] = "reject"

\* retries = 3, fn fails twice and then succeeds: three invocations
C16_Witness ==
    /\ pc = "done"
    /\ opts.retries = 3
    /\ Len(Events("threw")) = 2
    /\ Calls = 3
    /\ result = <<"resolve", "success">>

\* C17: when all N >= 1 attempts have thrown, retry rejects with what the
\* N-th attempt threw: that very Error when it is one (a thrown value that
\* is no Error is wrapped, new Error(String(value))), not an error of an
\* earlier attempt and not the 'Retries exhausted' error.
C17_RejectsWithLastError ==
    (opts.retries >= 1 /\ pc = "done" /\ Events("returned") = << >>)
    => LET threw == Events("threw")
           last == threw[Len(threw)]
       IN /\ last[2] = opts.retries
          /\ last[3][1] = "Error" => result = <<"reject", last[3]>>
          /\ last[3][1] # "Error"
             => result = <<"reject", <<"Error", last[3][2]>>>>
          /\ result # <<"reject", RetriesExhausted>>

\* two attempts, the first threw 'fail 1' and the second 'fail 2'
C17_Witness ==
    /\ pc = "done"
    /\ opts.retries = 2
    /\ Events("threw") = << <<"threw", 1, <<"Error", "fail 1">>>>,
                            <<"threw", 2, <<"Error", "fail 2">>>> >>
    /\ result = <<"reject", <<"Error", "fail 2">>>>

\* the options of C18
BackoffExample ==
    [retries |-> 5, delay |-> 1000, exponential |-> TRUE, maxDelay |-> 8000]

ClaimedWait(a) ==
    IF opts.exponential
    THEN Min(opts.delay * 2 ^ (a - 1), opts.maxDelay)
    ELSE opts.delay

C20_OnRetryBeforeWait ==
    /\ \A p \in DOMAIN trace :
           /\ trace[p][1] = "threw"
              => IF trace[p][2] < opts.retries
                 THEN /\ p + 2 \in DOMAIN trace
                      /\ trace[p + 1] =
                             <<"onRetry", ToError(trace[p][3]), trace[p][2]>>
                      /\ trace[p + 2][1] = "wait"
                      /\ p + 3 \in DOMAIN trace
                         => trace[p + 3] = <<"fn", trace[p][2] + 1>>
                 ELSE p = Len(trace)
           /\ trace[p][1] = "onRetry"
              => /\ p >= 2
                 /\ trace[p - 1][1] = "threw"
                 /\ trace[p - 1][2] = trace[p][3]
                 /\ trace[p][3] \in 1..(opts.retries - 1)
           /\ trace[p][1] = "returned" => p = Len(trace)
    /\ \A k \in 1..Len(Events("onRetry")) : Events("onRetry")[k][3] = k
    /\ (pc = "done" /\ Calls >= 1) => Len(Events("onRetry")) = Calls - 1
    /\ Calls = 0 => Events("onRetry") = << >>

\* three attempts failed: onRetry was called for the first two, the second
\* time with the Error made of the string thrown
C20_Witness ==
    /\ pc = "done"
    /\ opts.retries = 3
    /\ Events("onRetry") = << <<"onRetry", <<"Error", "fail 1">>, 1>>,
                              <<"onRetry", <<"Error", "boom">>, 2>> >>
    /\ Len(Events("threw")) = 3
    /\ result = <<"reject", <<"Error", "fail 2">>>>

\* ---- vocabulary of the properties of the interceptors ---------------------
\* what the first p entries of the array list make of Base, one after the
\* other
Chained(list, p) == Base \o [q \in 1..p |-> list[q].fn]

\* the array list without the entry of the registration reg
Without(list, reg) ==
    LET Other(e) == e.reg # reg
    IN SelectSeq(list, Other)

\* the step is a call of the handle h
RemoveStep(h) == lastInt'.op = "remove" /\ lastInt'.arg = h

\* C21: a run during which no registration, handle or clear() runs invokes
\* the entries of the array of its kind as it was at the call, in the
\* order of registration, each with what the one before returned (the
\* first with the input), and returns what the last returned, or the input
\* when the array is empty; no entry of another kind is invoked.
C21_StagesInOrder ==
    (run # Null /\ ~run[1].disturbed)
    => LET r == run[1]
           n == Len(r.invoked)
       IN /\ n <= Len(r.start)
          /\ \A p \in 1..n :
                 /\ r.invoked[p].fn = r.start[p].fn
                 /\ r.invoked[p].reg = r.start[p].reg
                 /\ r.invoked[p].given = Chained(r.start, p - 1)
                 /\ Handle(r.kind, r.invoked[p].fn, r.invoked[p].reg)
                        \in handles
          /\ \A p, q \in 1..Len(r.start) :
                 p < q => r.start[p].reg < r.start[q].reg
          /\ r.returned # Null
             => /\ n = Len(r.start)
                /\ r.returned = <<Chained(r.start, n)>>

\* the chain test: two error stages, run in the order of registration
C21_Witness ==
    /\ run # Null
    /\ ~run[1].disturbed
    /\ run[1].kind = "error"
    /\ run[1].returned = << <<"Base", "[1]", "[2]">> >>
    /\ Len(run[1].invoked) = 2
    /\ interceptors["error"] = <<Entry("[1]", 1), Entry("[2]", 2)>>

\* C22 as claimed: a call of the handle of a registration takes the entry
\* of that registration, if it is still in its array, out of it and leaves
\* every other entry where it is.
C22_HandleRemovesItsOwn ==
    [][ \A h \in handles :
            RemoveStep(h)
            => interceptors' =
                   [interceptors EXCEPT ![h.kind] = Without(@, h.reg)]
      ]_vars

\* the events of the latest operation
Events0 == {emitted[i] : i \in DOMAIN emitted}

\* C23 as claimed: a HALF_OPEN breaker passes only a limited number of calls
\* to fn, however many callers there are: with MaxInFlight callers at hand
\* it never has all of them inside fn, admitted while HALF_OPEN.
C23_HalfOpenAdmitsLimited ==
    state = HALF_OPEN => inflight[HALF_OPEN] < MaxInFlight

\* C24: with execute calls overlapping, the recording of a counted failure
\* never takes the breaker from OPEN to CLOSED, from HALF_OPEN to CLOSED or
\* from OPEN to HALF_OPEN: it leaves the state or makes it OPEN.  When it
\* is the recording in a CLOSED breaker that makes failureThreshold counted
\* failures inside the failure window since the last success, the breaker
\* is OPEN after it; and whenever the window holds failureThreshold
\* failures after a recording, the breaker is OPEN.
C24_FailuresOnlyTowardOpen ==
    [][ \A e \in Errors :
            (FailureStep(e) /\ Counted(e))
            => /\ <<state, state'>> \notin
                      {<<OPEN, CLOSED>>, <<HALF_OPEN, CLOSED>>,
                       <<OPEN, HALF_OPEN>>}
               /\ state' \in {state, OPEN}
               /\ (state = CLOSED /\ RecentFailures >= FailureThreshold - 1)
                      => state' = OPEN
               /\ RecentFailures' >= FailureThreshold => state' = OPEN
      ]_vars

\* two overlapping calls fail one after the other and the second failure
\* opens the breaker while a third call is still inside fn
C24_Witness ==
    /\ state = OPEN
    /\ lastOp.op = "settle"
    /\ lastOp.fnResult = Reject("critical")
    /\ <<"stateChange", OPEN, CLOSED>> \in Events0
    /\ InFlight >= 1
    /\ totalFailures = FailureThreshold
    /\ totalSuccesses = 0

\* C25: the return of an execute call, whether fn resolved, rejected with
\* a counted error or rejected with an ignored one, and an execute call
\* itself, leave an OPEN breaker OPEN; the breaker leaves OPEN only for
\* HALF_OPEN in the callback of the reset timer and only for CLOSED in
\* forceClose() or reset().
C25_OnlyTimerAndAdminLeaveOpen ==
    [][ state = OPEN
        => /\ (SettleStep \/ CallStep) => state' = OPEN
           /\ state' = HALF_OPEN => TimerStep
           /\ state' = CLOSED
                  => /\ lastOp'.op \in {"forceClose", "reset"}
                     /\ ~SettleStep
                     /\ ~CallStep
      ]_vars

\* a call admitted before forceOpen() succeeds for the second time while
\* the breaker is OPEN, and the breaker is still OPEN
C25_Witness ==
    /\ state = OPEN
    /\ lastOp.op = "settle"
    /\ lastOp.fnResult = Resolve(FnValue)
    /\ successes = SuccessThreshold
    /\ emitted = << <<"success">> >>

\* C26 as claimed: after forceOpen() the breaker is OPEN, and after
\* forceClose(), whatever the state before, it is CLOSED with failures and
\* successes 0, the failure window empty and no reset timer pending.
C26_ForceMethods ==
    /\ lastOp.op = "forceOpen" => state = OPEN
    /\ lastOp.op = "forceClose"
           => /\ state = CLOSED
              /\ failures = 0
              /\ successes = 0
              /\ failureTimestamps = << >>
              /\ resetTimer = Null
              /\ timers = {}

\* the step is an operation on the breaker that is seen in the call count,
\* the calls inside fn, the events or the record of the latest operation
\* (the passing of time is seen in none of them)
Operation == ~UNCHANGED <<lastOp, emitted, totalCalls, inflight>>

\* C27: an execute call adds one to totalCalls in every state; it invokes
\* fn once (one more call is inside fn) when the state is not OPEN at the
\* call and not at all when it is OPEN.  The return of a call, after fn
\* resolved or rejected, invokes fn no more: the calls inside fn are one
\* fewer and no call is counted.  Nothing but an execute call puts a call
\* inside fn or adds to totalCalls.
C27_FnInvokedOncePerAdmittedCall ==
    [][ /\ (Operation /\ lastOp'.op = "execute")
            => /\ totalCalls' = totalCalls + 1
               /\ IF state # OPEN
                  THEN /\ lastOp'.invoked
                       /\ inflight' = [inflight EXCEPT ![state] = @ + 1]
                  ELSE /\ ~lastOp'.invoked
                       /\ inflight' = inflight
        /\ (Operation /\ lastOp'.op = "settle")
            => /\ InFlight' = InFlight - 1
               /\ \A a \in AdmitStates : inflight'[a] <= inflight[a]
               /\ totalCalls' = totalCalls
        /\ (InFlight' > InFlight \/ totalCalls' > totalCalls)
            => lastOp'.op = "execute"
      ]_vars

\* three calls, one of them refused while OPEN, and the two admitted ones
\* have failed: no call is inside fn
C27_Witness ==
    /\ totalCalls = 3
    /\ totalFailures = 2
    /\ totalSuccesses = 0
    /\ InFlight = 0
    /\ lastOp.op = "execute"
    /\ ~lastOp.invoked
    /\ state = OPEN

\* the events of a change of state
StateEvents == {"stateChange", "open", "close", "halfOpen"}
EventOf(s) ==
    IF s = OPEN THEN "open" ELSE IF s = CLOSED THEN "close" ELSE "halfOpen"
IsStateEvent(e) == e[1] \in StateEvents

\* C28: an operation that changes the state emits, of the events
\* stateChange, open, close and halfOpen, exactly stateChange(new state,
\* previous state) and, next after it, the event of the new state; the two
\* states differ.  An operation that leaves the state as it was emits none
\* of the four.
C28_StateChangeEvents ==
    [][ /\ state' # state
            => /\ SelectSeq(emitted', IsStateEvent)
                      = << <<"stateChange", state', state>>,
                           <<EventOf(state')>> >>
               /\ \E i \in 1..(Len(emitted') - 1) :
                      /\ emitted'[i] = <<"stateChange", state', state>>
                      /\ emitted'[i + 1] = <<EventOf(state')>>
        /\ (state' = state /\ Operation)
            => SelectSeq(emitted', IsStateEvent) = << >>
      ]_vars

\* forceOpen() on a breaker that the failures have opened: no event
C28_Witness ==
    /\ state = OPEN
    /\ lastOp.op = "forceOpen"
    /\ emitted = << >>
    /\ totalFailures = FailureThreshold
    /\ resetTimer # Null

\* C29: after the recording of a counted failure every timestamp of the
\* failure window is newer than now - failureWindow (its age is below
\* failureWindow).  A counted failure opens a CLOSED breaker only when it
\* is at least the failureThreshold-th inside the window since the last
\* success: with fewer failures inside the window before it, whatever the
\* number of older ones, the breaker stays CLOSED; and the window of a
\* breaker a failure has just opened holds failureThreshold timestamps.
C29_WindowHoldsRecentOnly ==
    [][ \A e \in Errors :
            (FailureStep(e) /\ Counted(e))
            => /\ \A i \in DOMAIN failureTimestamps' :
                      failureTimestamps'[i] < FailureWindow
               /\ Len(failureTimestamps') = RecentFailures + 1
               /\ (state = CLOSED /\ state' = OPEN)
                      => /\ RecentFailures >= FailureThreshold - 1
                         /\ Len(failureTimestamps') >= FailureThreshold
               /\ (state = CLOSED /\ RecentFailures < FailureThreshold - 1)
                      => state' = CLOSED
      ]_vars

\* the second failure comes when the first has left the window: the
\* breaker has failureThreshold failures in a row and is CLOSED
C29_Witness ==
    /\ state = CLOSED
    /\ lastOp.op = "settle"
    /\ lastOp.fnResult = Reject("critical")
    /\ failures = FailureThreshold
    /\ totalSuccesses = 0
    /\ failureTimestamps = <<Now>>
    /\ emitted = << <<"failure", "critical">> >>

\* C30 as claimed: after reset(), whatever the state before, the breaker
\* is as a new one: its statistics are those of a new breaker and its
\* failure window is empty.
C30_ResetIsAsNew ==
    lastOp.op = "reset"
    => /\ GetStats(Breaker) = GetStats(NewCircuitBreaker(options))
       /\ failureTimestamps = NewCircuitBreaker(options).failureTimestamps

\* C31: an execute call that finds the breaker OPEN adds one to totalCalls
\* and leaves the state, failures, successes, the failure window,
\* totalFailures, totalSuccesses, lastFailure, lastSuccess, the handle of
\* the reset timer and the pending timer with the time left to it as they
\* were, with the default fallback (which throws) as with a custom one
\* (which returns).
C31_OpenCallChangesOnlyTotalCalls ==
    [][ (Operation /\ lastOp'.op = "execute" /\ state = OPEN)
        => /\ totalCalls' = totalCalls + 1
           /\ UNCHANGED <<state, failures, successes, failureTimestamps,
                          totalFailures, totalSuccesses, lastFailure,
                          lastSuccess, resetTimer, timers, inflight>>
           /\ lastOp'.outcome = IF options.fallback = "default"
                                THEN Reject(CircuitBreakerError)
                                ELSE Resolve(FallbackValue)
      ]_vars

\* a call refused with the default fallback when the reset timer is due
C31_Witness ==
    /\ state = OPEN
    /\ lastOp.op = "execute"
    /\ lastOp.outcome = Reject(CircuitBreakerError)
    /\ \E t \in timers : t.remaining = 0 /\ resetTimer = <<t.id>>
    /\ totalFailures = FailureThreshold
    /\ totalCalls = FailureThreshold + 1

\* C32 as claimed: the success of a call that was admitted while the
\* breaker was CLOSED and returns when it is HALF_OPEN leaves the successes
\* count and the state as they were.
C32_StaleSuccessDoesNotCount ==
    [][ ( /\ SuccessStep
          /\ state = HALF_OPEN
          /\ inflight'[CLOSED] = inflight[CLOSED] - 1 )
        => UNCHANGED <<successes, state>>
      ]_vars

\* C33 as claimed: the calls that have succeeded and the calls that have
\* failed are never more than the calls made.
C33_OutcomesWithinCalls == totalSuccesses + totalFailures <= totalCalls

\* C35 as claimed: while the breaker is CLOSED the failures count is below
\* failureThreshold and is the number of failures the failure window
\* holds (the window as the latest recording has pruned it).
C35_FailuresTrackWindow ==
    state = CLOSED
    => /\ failures < FailureThreshold
       /\ failures = Len(failureTimestamps)

C36_KeptStagesInvokedOnce ==
    (run # Null /\ run[1].returned # Null)
    => LET r == run[1]
           kept == RunArray(r, interceptors)
       IN \A p \in DOMAIN kept :
              (\E q \in DOMAIN r.start : r.start[q].reg = kept[p].reg)
              => Cardinality({i \in DOMAIN r.invoked :
                                 r.invoked[i].reg = kept[p].reg}) = 1

\* the config that is given with the header name set to value
WithHeader(given, name, value) ==
    [given EXCEPT !.headers =
         <<[IF given.headers = Null THEN NoHeaders ELSE given.headers[1]
               EXCEPT ![name] = <<value>>]>>]

\* what a pure stage makes of the config it is given
Expected(op, param, given) ==
    IF op = "auth"
    THEN IF Truthy(param)
         THEN WithHeader(given, "Authorization", Bearer(param[1]))
         ELSE given
    ELSE IF op = "requestId" THEN WithHeader(given, "X-Request-ID", param)
    ELSE IF op = "timestamp" THEN WithHeader(given, "X-Request-Time", param)
    ELSE IF op = "contentType"
    THEN IF /\ Truthy(given.data)
            /\ (given.headers = Null
                  \/ given.headers[1]["Content-Type"] = Null)
         THEN WithHeader(given, "Content-Type", param)
         ELSE given
    ELSE WithHeader(given, "User-Agent", param)

\* C37 as claimed: a built-in request stage returns a config that is the
\* config it was given with the header added (Content-Type only when data
\* is present and no Content-Type is set, Authorization only when the
\* token getter yields a token), and the config object it was given reads
\* after the call as it did before, its headers included.
C37_StagesArePure ==
    lastStage.op # "new"
    => /\ Deep(heap, lastStage.ret)
              = Expected(lastStage.op, lastStage.param, lastStage.given)
       /\ Deep(heap, lastStage.arg) = lastStage.given

\* C38: retry rejects with the 'Retries exhausted with unknown error'
\* error exactly when it ends without having invoked fn, which is when
\* retries <= 0; when fn was invoked and retry rejects, every attempt threw
\* and the rejection is what the last attempt threw, wrapped in an Error
\* when it is none.
C38_GenericErrorOnlyWithoutAttempt ==
    pc = "done"
    => /\ result = Reject(RetriesExhausted) <=> Calls = 0
       /\ Calls = 0 <=> opts.retries <= 0
       /\ (Calls >= 1 /\ result[1] = "reject")
          => LET threw == Events("threw")
                 last == threw[Len(threw)][3]
             IN /\ Len(threw) = Calls
                /\ result[2] = IF last[1] = "Error" THEN last
                               ELSE ErrorOf(last[2])

\* retry called with retries = 0: no attempt, the generic error
C38_Witness ==
    /\ pc = "done"
    /\ opts.retries = 0
    /\ trace = << >>
    /\ result = Reject(RetriesExhausted)

\* C39: forceOpen() on a CLOSED or HALF_OPEN breaker leaves it OPEN with
\* one pending reset timer, due after resetTimeout, whose handle the
\* breaker holds; on an OPEN breaker it leaves the pending timer, the time
\* left to it and the handle as they were.  A breaker that forceOpen() has
\* left OPEN does not stay OPEN for ever: the timer's callback makes it
\* HALF_OPEN, unless forceClose() or reset() closes it before.
C39_ForceOpenKeepsCooldown ==
    /\ [][ (Operation /\ lastOp'.op = "forceOpen")
           => /\ state' = OPEN
              /\ IF state = OPEN
                 THEN UNCHANGED <<timers, resetTimer>>
                 ELSE \E t \in timers' :
                          /\ timers' = {t}
                          /\ t.remaining = ResetTimeout
                          /\ resetTimer' = <<t.id>>
         ]_vars
    /\ (state = OPEN /\ lastOp.op = "forceOpen")
           ~> \/ state = HALF_OPEN /\ lastOp.op = "timer"
              \/ state = CLOSED /\ lastOp.op \in {"forceClose", "reset"}

\* forceOpen() on a breaker that forceOpen() has opened and whose reset
\* timer is due: the timer is still due
C39_Witness ==
    /\ state = OPEN
    /\ lastOp.op = "forceOpen"
    /\ emitted = << >>
    /\ totalCalls = 0
    /\ timers = {[id |-> 1, remaining |-> 0]}
    /\ resetTimer = <<1>>

TypeOK ==
    /\ state \in CircuitState
    /\ failures \in 0..MaxCount
    /\ successes \in 0..MaxCount
    /\ totalCalls \in 0..MaxCalls
    /\ totalFailures \in 0..MaxCount
    /\ totalSuccesses \in 0..MaxCount
    /\ InFlight <= MaxInFlight
====
